---- MODULE Spec2Model ----
(***************************************************************************)
(* Model of the registry client of docker-image-update-checker             *)
(* (package registry): the reference parser GetRepository, the challenge   *)
(* parser parseWWWAuthenticate, the per-host token cache (refreshToken,    *)
(* getCachedToken, getToken), Login, and the manifest retrieval            *)
(* GetManifests / getManifests, run by several concurrent callers that     *)
(* share one Client.                                                       *)
(*                                                                         *)
(* Strings are sequences of one-character strings, so that the parsers     *)
(* are computed character by character as the Go code computes them.       *)
(***************************************************************************)
EXTENDS Integers, Sequences, FiniteSets, TLC

\* ------------------------------------------------------------------------
\* Bounds of the model
\* ------------------------------------------------------------------------
NumCallers == 2      \* goroutines that share the Client
MaxCalls == 2        \* calls (GetManifests or Login) made on the Client in all
MaxTime == 2         \* largest reading of the clock
MaxLen == 5          \* longest image reference given to the reference parser

Procs == 1..NumCallers

\* ------------------------------------------------------------------------
\* Strings of the program
\* ------------------------------------------------------------------------
dockerHubHost ==
    <<"r","e","g","i","s","t","r","y","-","1",".","d","o","c","k","e","r",".","i","o">>
latest == <<"l","a","t","e","s","t">>
libraryPrefix == <<"l","i","b","r","a","r","y","/">>
Bearer == <<"B","e","a","r","e","r">>
realmKey == <<"r","e","a","l","m">>
serviceKey == <<"s","e","r","v","i","c","e">>
scopeKey == <<"s","c","o","p","e">>
Empty == <<>>

UpperChars == <<"A","B","C","D","E","F","G","H","I","J","K","L","M",
                "N","O","P","Q","R","S","T","U","V","W","X","Y","Z">>
LowerChars == <<"a","b","c","d","e","f","g","h","i","j","k","l","m",
                "n","o","p","q","r","s","t","u","v","w","x","y","z">>
DigitChars == <<"0","1","2","3","4","5","6","7","8","9">>

Range(s) == {s[i] : i \in DOMAIN s}

\* F(x), with the argument x evaluated once, before the call
Apply(F(_), x) == CHOOSE r \in {F(v) : v \in {x}} : TRUE

\* strings.ToLower on ASCII text
ToLower(s) ==
    [i \in DOMAIN s |->
        IF \E k \in DOMAIN UpperChars : UpperChars[k] = s[i]
        THEN LowerChars[CHOOSE k \in DOMAIN UpperChars : UpperChars[k] = s[i]]
        ELSE s[i]]

\* strings.IndexRune: position of the first occurrence (1-based), 0 if none
\* (the Go code's idx is this value minus one, -1 if none)
IndexRune(s, c) ==
    IF \E i \in DOMAIN s : s[i] = c
    THEN CHOOSE i \in DOMAIN s : s[i] = c /\ \A j \in 1..(i-1) : s[j] # c
    ELSE 0

\* strings.ContainsRune
ContainsRune(s, c) == \E i \in DOMAIN s : s[i] = c

\* s[from:] of Go with from a 1-based position
From(s, i) == SubSeq(s, i, Len(s))

\* ------------------------------------------------------------------------
\* GetRepository: splits the image name to host, repository, and tag
\* ------------------------------------------------------------------------
\* the position at which the tag is split off: the first ':' of the image
TagIndex(image) == IndexRune(image, ":")

\* strings.IndexRune(image, '/')
IndexSlash(s) == IndexRune(s, "/")

\* the first path segment is taken as the host whether or not it has a '.'
GetRepositoryAnyHost(image) ==
    LET idx == TagIndex(image)
        tag == IF idx > 0 THEN From(image, idx + 1) ELSE latest
        img == IF idx > 0 THEN SubSeq(image, 1, idx - 1) ELSE image
        sl  == Apply(IndexSlash, img)
    IN  IF sl > 0
        THEN [host |-> SubSeq(img, 1, sl - 1), repo |-> From(img, sl + 1), tag |-> tag]
        ELSE [host |-> dockerHubHost, repo |-> libraryPrefix \o img, tag |-> tag]

GetRepository(image) ==
    LET idx == TagIndex(image)
        tag == IF idx > 0 THEN From(image, idx + 1) ELSE latest
        img == IF idx > 0 THEN SubSeq(image, 1, idx - 1) ELSE image
        sl  == Apply(IndexSlash, img)
    IN  IF sl > 0
        THEN IF ContainsRune(SubSeq(img, 1, sl - 1), ".")
             THEN [host |-> SubSeq(img, 1, sl - 1), repo |-> From(img, sl + 1), tag |-> tag]
             ELSE [host |-> dockerHubHost, repo |-> img, tag |-> tag]
        ELSE [host |-> dockerHubHost, repo |-> libraryPrefix \o img, tag |-> tag]

\* ------------------------------------------------------------------------
\* parseWWWAuthenticate
\* ------------------------------------------------------------------------
\* the characters of [a-zA-Z0-9_]
KeyChars == Range(UpperChars) \cup Range(LowerChars) \cup Range(DigitChars) \cup {"_"}

\* last position of the run of key characters that starts at i
RECURSIVE KeyRunEnd(_, _)
KeyRunEnd(s, i) ==
    IF i + 1 <= Len(s) /\ s[i + 1] \in KeyChars THEN KeyRunEnd(s, i + 1) ELSE i

\* partRegexp.FindAllString(s, -1) for partRegexp = [a-zA-Z0-9_]+="[^"]*" :
\* the leftmost non-overlapping matches, scanning from position i0
FindAllFrom(s, i0) ==
    LET from[i \in Nat] ==
            IF i > Len(s) THEN <<>>
            ELSE IF s[i] \notin KeyChars THEN from[i + 1]
            ELSE LET j == KeyRunEnd(s, i)
                     closes == {k \in (j + 3)..Len(s) : s[k] = "\""}
                 IN  IF j + 2 <= Len(s) /\ s[j + 1] = "=" /\ s[j + 2] = "\"" /\ closes # {}
                     THEN LET k == CHOOSE x \in closes : \A y \in closes : x <= y
                          IN  <<SubSeq(s, i, k)>> \o from[k + 1]
                     ELSE from[i + 1]
    IN  from[i0]

FindAllString(s) == FindAllFrom(s, 1)

\* kv := strings.SplitN(part, "=", 2); the key kv[0]
PartKey(part) == SubSeq(part, 1, IndexRune(part, "=") - 1)
\* kv[1][1 : len(kv[1])-1], the value without its quotes
PartValue(part) ==
    LET v == From(part, IndexRune(part, "=") + 1) IN SubSeq(v, 2, Len(v) - 1)

\* the map built by the loop over the parts: a later part overwrites an
\* earlier one with the same key
ParamsOf(parts) ==
    [k \in {PartKey(parts[i]) : i \in DOMAIN parts} |->
        LET last == CHOOSE i \in DOMAIN parts :
                        /\ PartKey(parts[i]) = k
                        /\ \A j \in DOMAIN parts : PartKey(parts[j]) = k => j <= i
        IN  PartValue(parts[last])]

\* the scheme is not compared with "Bearer"
AuthTypeCheckAnyScheme(value) ==
    IF IndexRune(value, " ") = 0 THEN "authenticate type not found" ELSE "ok"

\* scheme check of parseWWWAuthenticate: "ok", or the error it returns
AuthTypeCheck(value) ==
    LET idx == IndexRune(value, " ")
    IN  IF idx = 0 THEN "authenticate type not found"
        ELSE IF SubSeq(value, 1, idx - 1) # Bearer THEN "unknown authenticate type"
        ELSE "ok"

parseWWWAuthenticate(value) ==
    IF AuthTypeCheck(value) # "ok"
    THEN [err |-> AuthTypeCheck(value), params |-> <<>>]
    ELSE [err |-> "ok",
          params |-> Apply(ParamsOf,
                           Apply(FindAllString, From(value, IndexRune(value, " ") + 1)))]

\* params[key] of a Go map: the empty string for a missing key
MapGet(m, k) == IF k \in DOMAIN m THEN m[k] ELSE Empty

\* ------------------------------------------------------------------------
\* Inputs: the images asked for, and what the registry and the token
\* endpoint may answer
\* ------------------------------------------------------------------------
StatusOK == 200
StatusUnauthorized == 401
StatusNotFound == 404
StatusInternalServerError == 500

ImageOfficial == <<"a">>
ImageThirdParty == <<"G",".","i","o","/","a",":","1">>
Images == {ImageOfficial, ImageThirdParty}

\* Bearer realm="r",service="s",scope="a"
ChallengeA ==
    Bearer \o <<" ","r","e","a","l","m","=","\"","r","\"",",",
                "s","e","r","v","i","c","e","=","\"","s","\"",",",
                "s","c","o","p","e","=","\"","a","\"">>
\* Bearer realm="r",x,scope="b"
ChallengeB ==
    Bearer \o <<" ","r","e","a","l","m","=","\"","r","\"",",","x",",",
                "s","c","o","p","e","=","\"","b","\"">>
\* Basic realm="r"
ChallengeBasic == <<"B","a","s","i","c"," ","r","e","a","l","m","=","\"","r","\"">>
\* Bearer
ChallengeNoSpace == Bearer
Challenges == {ChallengeA, ChallengeB, ChallengeBasic, ChallengeNoSpace}

\* what c.client.Do and the decoding of the body give for a manifest request:
\* status 0 is a transport error (no response)
NetErr == [status |-> 0, header |-> Empty, body |-> "none"]
ManifestResponses ==
    {NetErr}
    \cup {[status |-> StatusOK, header |-> Empty, body |-> b] : b \in {"m1", "m2", "bad"}}
    \cup {[status |-> StatusUnauthorized, header |-> h, body |-> "none"] :
              h \in Challenges \cup {Empty}}
    \cup {[status |-> StatusNotFound, header |-> ChallengeA, body |-> "none"],
          [status |-> StatusInternalServerError, header |-> Empty, body |-> "none"]}

\* what the token endpoint may answer to getToken
TokenResponses == {"neterr", "non200", "baddecode", "emptytoken", "ok"}

\* fetchLog: one entry per request received by the token endpoint, with the
\* request, whether a token was issued, and the time it was stored at
\* a token as issued by the token endpoint for (endpoint, service, scope);
\* serial tells the tokens of different fetches apart
NoToken == [endpoint |-> Empty, service |-> Empty, scope |-> Empty, serial |-> 0]
NoResult == [kind |-> "none", status |-> 0, header |-> Empty, manifest |-> "none"]

LoginHosts == {<<"G",".","i","o">>}

\* ------------------------------------------------------------------------
\* State
\* ------------------------------------------------------------------------
VARIABLES
    now,            \* the last reading of the clock
    mu,             \* Client.mu: the goroutine holding it for writing, 0 if none
    tokens,         \* Client.tokens: host -> registryToken (mu, token, updatedAt)
    loginInfo,      \* Client.loginInfo: host -> loginInfo
    pc,             \* where each goroutine is
    calls,          \* calls started on the Client so far
    image,          \* GetManifests: its image argument
    attempt,        \* GetManifests: which call of getManifests is running
    cached,         \* getManifests: the value getCachedToken returned
    lastUpdatedAt,  \* refreshToken: its lastUpdatedAt local
    startToken,     \* the token stored for the host when refreshToken was entered
    refreshed,      \* what refreshToken returned to this call
    result,         \* what the call returned
    reqLog,         \* what this call has done so far, in order: "manifest" and
                    \* "token" for a request sent, "refreshToken" for that call
    sentAuth,       \* the Authorization token of each manifest request sent
    resps,          \* the response to each manifest request sent
    fetchLog,       \* every request the token endpoint has received
    refIn,          \* reference parser run on its own: the image
    refOut          \* reference parser run on its own: the result

clientVars == <<mu, tokens, loginInfo>>
callVars == <<pc, calls, image, attempt, cached, lastUpdatedAt, startToken, refreshed, result,
              reqLog, sentAuth, resps>>
refVars == <<refIn, refOut>>
vars == <<now, clientVars, callVars, fetchLog, refVars>>

NoRef == [host |-> Empty, repo |-> Empty, tag |-> Empty]

\* registry.New(): an empty client; no goroutine has called anything yet
ClientInit ==
    /\ now = 1
    /\ mu = 0
    /\ tokens = <<>>
    /\ loginInfo = <<>>
    /\ pc = [p \in Procs |-> "idle"]
    /\ calls = 0
    /\ image = [p \in Procs |-> Empty]
    /\ attempt = [p \in Procs |-> 0]
    /\ cached = [p \in Procs |-> NoToken]
    /\ lastUpdatedAt = [p \in Procs |-> 0]
    /\ startToken = [p \in Procs |-> NoToken]
    /\ refreshed = [p \in Procs |-> NoToken]
    /\ result = [p \in Procs |-> NoResult]
    /\ reqLog = [p \in Procs |-> <<>>]
    /\ sentAuth = [p \in Procs |-> <<>>]
    /\ resps = [p \in Procs |-> <<>>]
    /\ fetchLog = <<>>

Init ==
    /\ ClientInit
    /\ refIn = Empty
    /\ refOut = NoRef

\* the host, and the key of the token cache, of the call p is running
Host(p) == GetRepository(image[p]).host
CacheKey(p) == Apply(ToLower, Host(p))

\* the challenge of the first response and the parameters parsed from it
Challenge(p) == resps[p][1].header
Params(p) == parseWWWAuthenticate(Challenge(p)).params

\* ------------------------------------------------------------------------
\* The clock
\* ------------------------------------------------------------------------
\* what time.Now() may return: the clock never goes back, and it may or may
\* not have advanced since it was last read
TimeNow == {t \in {now, now + 1} : t <= MaxTime}

\* ------------------------------------------------------------------------
\* Login
\* ------------------------------------------------------------------------
\* c.mu.Lock(); c.loginInfo[host] = &loginInfo{...}
Login(p, host, username, password) ==
    /\ pc[p] \in {"idle", "done"}
    /\ calls < MaxCalls
    /\ mu = 0
    /\ mu' = p
    /\ loginInfo' = (ToLower(host) :> [username |-> username, password |-> password])
                        @@ loginInfo
    /\ pc' = [pc EXCEPT ![p] = "loginUnlock"]
    /\ calls' = calls + 1
    /\ image' = [image EXCEPT ![p] = Empty]
    /\ attempt' = [attempt EXCEPT ![p] = 0]
    /\ cached' = [cached EXCEPT ![p] = NoToken]
    /\ lastUpdatedAt' = [lastUpdatedAt EXCEPT ![p] = 0]
    /\ startToken' = [startToken EXCEPT ![p] = NoToken]
    /\ refreshed' = [refreshed EXCEPT ![p] = NoToken]
    /\ result' = [result EXCEPT ![p] = NoResult]
    /\ reqLog' = [reqLog EXCEPT ![p] = <<>>]
    /\ sentAuth' = [sentAuth EXCEPT ![p] = <<>>]
    /\ resps' = [resps EXCEPT ![p] = <<>>]
    /\ UNCHANGED <<now, tokens, fetchLog, refVars>>

\* the deferred c.mu.Unlock(); return nil
LoginUnlock(p) ==
    /\ pc[p] = "loginUnlock"
    /\ mu' = 0
    /\ pc' = [pc EXCEPT ![p] = "done"]
    /\ result' = [result EXCEPT ![p] = [NoResult EXCEPT !.kind = "ok"]]
    /\ UNCHANGED <<now, tokens, loginInfo, calls, image, attempt, cached, lastUpdatedAt, startToken,
                   refreshed, reqLog, sentAuth, resps, fetchLog, refVars>>

\* ------------------------------------------------------------------------
\* GetManifests
\* ------------------------------------------------------------------------
\* host, repo, tag := GetRepository(image), then the first getManifests
GetManifestsStart(p, img) ==
    /\ pc[p] \in {"idle", "done"}
    /\ calls < MaxCalls
    /\ pc' = [pc EXCEPT ![p] = "getCachedToken"]
    /\ calls' = calls + 1
    /\ image' = [image EXCEPT ![p] = img]
    /\ attempt' = [attempt EXCEPT ![p] = 1]
    /\ cached' = [cached EXCEPT ![p] = NoToken]
    /\ lastUpdatedAt' = [lastUpdatedAt EXCEPT ![p] = 0]
    /\ startToken' = [startToken EXCEPT ![p] = NoToken]
    /\ refreshed' = [refreshed EXCEPT ![p] = NoToken]
    /\ result' = [result EXCEPT ![p] = NoResult]
    /\ reqLog' = [reqLog EXCEPT ![p] = <<>>]
    /\ sentAuth' = [sentAuth EXCEPT ![p] = <<>>]
    /\ resps' = [resps EXCEPT ![p] = <<>>]
    /\ UNCHANGED <<now, clientVars, fetchLog, refVars>>

\* getCachedToken, under c.mu.RLock: look the host up in c.tokens
GetCachedTokenMap(p) ==
    /\ pc[p] = "getCachedToken"
    /\ mu = 0
    /\ IF CacheKey(p) \in DOMAIN tokens
       THEN /\ pc' = [pc EXCEPT ![p] = "tokenRLock"]
            /\ UNCHANGED cached
       ELSE /\ pc' = [pc EXCEPT ![p] = "do"]
            /\ cached' = [cached EXCEPT ![p] = NoToken]
    /\ UNCHANGED <<now, clientVars, calls, image, attempt, lastUpdatedAt, startToken, refreshed,
                   result, reqLog, sentAuth, resps, fetchLog, refVars>>

\* getCachedToken, under token.mu.RLock: return token.token
GetCachedTokenRead(p) ==
    /\ pc[p] = "tokenRLock"
    /\ tokens[CacheKey(p)].mu = 0
    /\ cached' = [cached EXCEPT ![p] = tokens[CacheKey(p)].token]
    /\ pc' = [pc EXCEPT ![p] = "do"]
    /\ UNCHANGED <<now, clientVars, calls, image, attempt, lastUpdatedAt, startToken, refreshed,
                   result, reqLog, sentAuth, resps, fetchLog, refVars>>

\* the header is never set
AuthorizationNever(token) == NoToken

\* the Authorization header of the request: set only for a non-empty token
Authorization(token) == token

\* what getManifests returns for a response
GetManifestsResult(resp) ==
    IF resp.status = 0
    THEN [NoResult EXCEPT !.kind = "neterr"]
    ELSE IF resp.status # StatusOK
    THEN [kind |-> "registryError", status |-> resp.status, header |-> resp.header,
          manifest |-> "none"]
    ELSE IF resp.body = "bad"
    THEN [NoResult EXCEPT !.kind = "decodeerr"]
    ELSE [NoResult EXCEPT !.kind = "ok", !.manifest = resp.body]

\* the refresh is left out: the request is sent again as it was
AfterChallengeSkipRefresh(h) ==
    IF h # Empty /\ parseWWWAuthenticate(h).err # "ok" THEN "return" ELSE "getCachedToken"

\* GetManifests after the challenge of a 401 has been read:
\* refresh the token, give up, or go on to the second request
AfterChallenge(h) ==
    IF h # Empty
    THEN IF parseWWWAuthenticate(h).err # "ok" THEN "return" ELSE "refreshToken"
    ELSE "getCachedToken"

\* every registry error is treated as a challenge
AfterFirstNoStatusCheck(r) ==
    IF r.kind = "ok" THEN "return"
    ELSE IF r.kind # "registryError" THEN "return"
    ELSE AfterChallenge(r.header)

\* GetManifests after its first getManifests returned r
AfterFirst(r) ==
    IF r.kind = "ok" THEN "return"
    ELSE IF r.kind # "registryError" THEN "return"
    ELSE IF r.status # StatusUnauthorized THEN "return"
    ELSE AfterChallenge(r.header)

\* the error GetManifests returns when it returns after its first request
FirstError(r) ==
    IF r.kind = "registryError" /\ r.status = StatusUnauthorized
    THEN [NoResult EXCEPT !.kind = "parseerr"]
    ELSE r

\* a retry loop: the second answer is treated like the first
AfterSecondRetry(r) == AfterFirst(r)

\* GetManifests after its second getManifests returned r: return it
AfterSecond(r) == "return"

\* getManifests: send the request, receive resp; then GetManifests up to its
\* next blocking call
ManifestsDo(p, resp) ==
    LET r == GetManifestsResult(resp)
        next == IF attempt[p] = 1 THEN AfterFirst(r) ELSE AfterSecond(r)
    IN  /\ pc[p] = "do"
        /\ reqLog' = [reqLog EXCEPT ![p] = Append(@, "manifest")]
        /\ sentAuth' = [sentAuth EXCEPT ![p] = Append(@, Authorization(cached[p]))]
        /\ resps' = [resps EXCEPT ![p] = Append(@, resp)]
        /\ IF next = "return"
           THEN /\ pc' = [pc EXCEPT ![p] = "done"]
                /\ result' = [result EXCEPT ![p] = IF attempt[p] = 1 THEN FirstError(r) ELSE r]
                /\ UNCHANGED attempt
           ELSE /\ pc' = [pc EXCEPT ![p] = next]
                /\ attempt' = [attempt EXCEPT ![p] = IF next = "refreshToken" THEN @ ELSE @ + 1]
                /\ UNCHANGED result
        /\ UNCHANGED <<now, clientVars, calls, image, cached, lastUpdatedAt, startToken, refreshed,
                       fetchLog, refVars>>

\* ------------------------------------------------------------------------
\* refreshToken and getToken
\* ------------------------------------------------------------------------
\* the token stored for host k, none if the host has no entry
StoredToken(k) == IF k \in DOMAIN tokens THEN tokens[k].token ELSE NoToken

\* lastUpdatedAt := time.Now()
RefreshStart(p, t) ==
    /\ pc[p] = "refreshToken"
    /\ t \in TimeNow
    /\ now' = t
    /\ lastUpdatedAt' = [lastUpdatedAt EXCEPT ![p] = t]
    /\ startToken' = [startToken EXCEPT ![p] = StoredToken(CacheKey(p))]
    /\ reqLog' = [reqLog EXCEPT ![p] = Append(@, "refreshToken")]
    /\ pc' = [pc EXCEPT ![p] = "muLock"]
    /\ UNCHANGED <<clientVars, calls, image, attempt, cached, refreshed, result,
                   sentAuth, resps, fetchLog, refVars>>

NewRegistryToken == [mu |-> 0, token |-> NoToken, updatedAt |-> 0]

\* c.mu.Lock(); create the map and the host's registryToken if missing
RefreshMuLock(p) ==
    /\ pc[p] = "muLock"
    /\ mu = 0
    /\ mu' = p
    /\ tokens' = IF CacheKey(p) \in DOMAIN tokens
                 THEN tokens
                 ELSE (CacheKey(p) :> NewRegistryToken) @@ tokens
    /\ pc' = [pc EXCEPT ![p] = "muUnlock"]
    /\ UNCHANGED <<now, loginInfo, calls, image, attempt, cached, lastUpdatedAt, startToken, refreshed,
                   result, reqLog, sentAuth, resps, fetchLog, refVars>>

\* the lock of the map is kept while refreshToken goes on
RefreshMuUnlockForgotten(p) ==
    /\ pc[p] = "muUnlock"
    /\ pc' = [pc EXCEPT ![p] = "tokenLock"]
    /\ UNCHANGED <<now, clientVars, calls, image, attempt, cached, lastUpdatedAt, startToken,
                   refreshed, result, reqLog, sentAuth, resps, fetchLog, refVars>>

\* c.mu.Unlock()
RefreshMuUnlock(p) ==
    /\ pc[p] = "muUnlock"
    /\ mu' = 0
    /\ pc' = [pc EXCEPT ![p] = "tokenLock"]
    /\ UNCHANGED <<now, tokens, loginInfo, calls, image, attempt, cached, lastUpdatedAt, startToken,
                   refreshed, result, reqLog, sentAuth, resps, fetchLog, refVars>>

\* the time is taken once the lock is held instead of on entry
AfterLockTime(t, u) == t > now

\* a token as old as lastUpdatedAt is taken for a new one
AfterOrEqual(t, u) == t >= u

\* token.updatedAt.After(lastUpdatedAt)
After(t, u) == t > u

\* the lock of the host is taken without waiting for its holder
TokenMuAlwaysFree(k) == TRUE

\* token.mu.Lock() can return: nobody holds the lock of host k
TokenMuFree(k) == tokens[k].mu = 0

\* token.mu.Lock(); if the token is newer than lastUpdatedAt return it (the
\* deferred Unlock runs), else keep the lock and call getToken
RefreshTokenLock(p) ==
    LET k == CacheKey(p) IN
    /\ pc[p] = "tokenLock"
    /\ TokenMuFree(k)
    /\ IF After(tokens[k].updatedAt, lastUpdatedAt[p])
       THEN /\ refreshed' = [refreshed EXCEPT ![p] = tokens[k].token]
            /\ attempt' = [attempt EXCEPT ![p] = @ + 1]
            /\ pc' = [pc EXCEPT ![p] = "getCachedToken"]
            /\ UNCHANGED tokens
       ELSE /\ tokens' = [tokens EXCEPT ![k].mu = p]
            /\ pc' = [pc EXCEPT ![p] = "getToken"]
            /\ UNCHANGED <<refreshed, attempt>>
    /\ UNCHANGED <<now, mu, loginInfo, calls, image, cached, lastUpdatedAt, startToken, result,
                   reqLog, sentAuth, resps, fetchLog, refVars>>

\* the request getToken sends: GET endpoint?service=...&scope=...
TokenRequest(p) ==
    LET Request(params) ==
            [proc |-> p, host |-> CacheKey(p),
             endpoint |-> MapGet(params, realmKey),
             service |-> MapGet(params, serviceKey),
             scope |-> MapGet(params, scopeKey)]
    IN  Apply(Request, Params(p))

\* the token the endpoint issues for a request, the n-th it has received
IssuedToken(req, n) ==
    [endpoint |-> req.endpoint, service |-> req.service, scope |-> req.scope,
     serial |-> n]

\* the token in the body of the answer out of the token endpoint, the nth
\* answer of the run: only a good answer carries a token
BodyToken(out, req, n) == IF out = "ok" THEN IssuedToken(req, n) ELSE NoToken

\* whatever getToken returns is stored
AfterGetTokenStoreAlways(out) == "store"

\* an answer without a token is stored too
AfterGetTokenAcceptEmpty(out) == IF out \in {"ok", "emptytoken"} THEN "store" ELSE "return"

\* a failed fetch is tried again
AfterGetTokenRetry(out) == IF out = "ok" THEN "store" ELSE "getToken"

\* what refreshToken does with the answer out of getToken: "store" the
\* token, or "return" the error
AfterGetToken(out) == IF out = "ok" THEN "store" ELSE "return"

\* the lock of the record stays with the goroutine
TokenMuUnlockForgotten(rec) == rec

\* token.mu.Unlock(), deferred in refreshToken
TokenMuUnlock(rec) == [rec EXCEPT !.mu = 0]

\* getToken with the answer out of the token endpoint, and the rest of
\* refreshToken: store the token and the time t read from the clock, or
\* fail; the deferred token.mu.Unlock() runs on both paths
GetToken(p, out, t) ==
    /\ pc[p] = "getToken"
    /\ t \in TimeNow
    /\ \E k \in {CacheKey(p)}, req \in {TokenRequest(p)} :
        \E newToken \in {BodyToken(out, req, Len(fetchLog) + 1)}, next \in {AfterGetToken(out)} :
           /\ now' = IF next = "store" THEN t ELSE now
           /\ fetchLog' = Append(fetchLog, [req |-> req, ok |-> (out = "ok"),
                                            at |-> IF out = "ok" THEN t ELSE 0])
           /\ reqLog' = [reqLog EXCEPT ![p] = Append(@, "token")]
           /\ IF next = "store"
              THEN /\ tokens' = [tokens EXCEPT ![k] =
                                    TokenMuUnlock([@ EXCEPT !.token = newToken,
                                                            !.updatedAt = t])]
                   /\ refreshed' = [refreshed EXCEPT ![p] = newToken]
                   /\ attempt' = [attempt EXCEPT ![p] = @ + 1]
                   /\ pc' = [pc EXCEPT ![p] = "getCachedToken"]
                   /\ UNCHANGED result
              ELSE IF next = "return"
              THEN /\ tokens' = [tokens EXCEPT ![k] = TokenMuUnlock(@)]
                   /\ result' = [result EXCEPT ![p] = [NoResult EXCEPT !.kind = "tokenerr"]]
                   /\ pc' = [pc EXCEPT ![p] = "done"]
                   /\ UNCHANGED <<refreshed, attempt>>
              ELSE /\ pc' = [pc EXCEPT ![p] = next]
                   /\ UNCHANGED <<tokens, refreshed, attempt, result>>
    /\ UNCHANGED <<mu, loginInfo, calls, image, cached, lastUpdatedAt, startToken,
                   sentAuth, resps, refVars>>

\* ------------------------------------------------------------------------
\* Specification of the client
\* ------------------------------------------------------------------------
Next ==
    \/ \E p \in Procs, h \in LoginHosts : Login(p, h, "user", "pass")
    \/ \E p \in Procs : LoginUnlock(p)
    \/ \E p \in Procs, img \in Images : GetManifestsStart(p, img)
    \/ \E p \in Procs : GetCachedTokenMap(p)
    \/ \E p \in Procs : GetCachedTokenRead(p)
    \/ \E p \in Procs, resp \in ManifestResponses : ManifestsDo(p, resp)
    \/ \E p \in Procs, t \in {now, now + 1} : RefreshStart(p, t)
    \/ \E p \in Procs : RefreshMuLock(p)
    \/ \E p \in Procs : RefreshMuUnlock(p)
    \/ \E p \in Procs : RefreshTokenLock(p)
    \/ \E p \in Procs, out \in TokenResponses, t \in {now, now + 1} : GetToken(p, out, t)

Spec == Init /\ [][Next]_vars

\* a step of goroutine p inside a call it has started
Step(p) ==
    \/ LoginUnlock(p)
    \/ GetCachedTokenMap(p)
    \/ GetCachedTokenRead(p)
    \/ \E resp \in ManifestResponses : ManifestsDo(p, resp)
    \/ \E t \in {now, now + 1} : RefreshStart(p, t)
    \/ RefreshMuLock(p)
    \/ RefreshMuUnlock(p)
    \/ RefreshTokenLock(p)
    \/ \E out \in TokenResponses, t \in {now, now + 1} : GetToken(p, out, t)

\* every goroutine inside a call goes on when it can: a network request
\* returns an answer or an error, and a goroutine waiting for a lock that is
\* free again and again gets it
Fairness == \A p \in Procs : WF_vars(Step(p))

FairSpec == Spec /\ Fairness

\* ------------------------------------------------------------------------
\* The reference parser on its own: GetRepository applied to every image
\* of at most MaxLen characters over RefChars
\* ------------------------------------------------------------------------
RefChars == {"a", ".", ":", "/"}
RefImages == UNION {[1..n -> RefChars] : n \in 0..MaxLen}

RefInit ==
    /\ ClientInit
    /\ refIn \in RefImages
    /\ refOut = NoRef

ParseRef ==
    /\ refOut = NoRef
    /\ refOut' = GetRepository(refIn)
    /\ UNCHANGED <<now, clientVars, callVars, fetchLog, refIn>>

RefNext == ParseRef

RefSpec == RefInit /\ [][RefNext]_vars

\* ------------------------------------------------------------------------
\* Properties
\* ------------------------------------------------------------------------
\* the number of entries e in the log of call p
Count(p, e) == Cardinality({i \in DOMAIN reqLog[p] : reqLog[p][i] = e})

\* the requests call p has sent over the network, in order
IsRequest(e) == e # "refreshToken"
Requests(p) == SelectSeq(reqLog[p], IsRequest)

\* p is running, or has returned from, a GetManifests call
InGetManifests(p) == attempt[p] >= 1
Returned(p) == pc[p] = "done" /\ attempt[p] >= 1

\* C1: a GetManifests call sends at most two manifest requests and calls
\* refreshToken (and the token endpoint) at most once; when the second
\* manifest request is answered 401 the call has returned, with a registry
\* error of status 401
C1_AtMostTwoAttempts ==
    \A p \in Procs :
        /\ Count(p, "manifest") <= 2
        /\ Count(p, "refreshToken") <= 1
        /\ Count(p, "token") <= 1
        /\ (Len(resps[p]) = 2 /\ resps[p][2].status = StatusUnauthorized)
               => /\ pc[p] = "done"
                  /\ result[p].kind = "registryError"
                  /\ result[p].status = StatusUnauthorized

\* a call that refreshed its token and was answered 401 again
C1_Witness ==
    \E p \in Procs :
        /\ Requests(p) = <<"manifest", "token", "manifest">>
        /\ resps[p][2].status = StatusUnauthorized
        /\ resps[p][2].header = ChallengeA
        /\ pc[p] = "done"

\* the requests the token endpoint has received for host h
FetchesFor(h) == {i \in DOMAIN fetchLog : fetchLog[i].req.host = h}

\* the time the first token fetched for host h was stored at
FirstStoreAt(h) ==
    IF FetchesFor(h) = {} THEN 0
    ELSE fetchLog[CHOOSE i \in FetchesFor(h) : \A j \in FetchesFor(h) : i <= j].at

\* every goroutine is in a GetManifests call for host h that sent its first
\* request without a token, was answered 401, called refreshToken and is
\* past it, and the token endpoint has issued a token every time
Herd(h) ==
    /\ \A p \in Procs :
          /\ InGetManifests(p)
          /\ CacheKey(p) = h
          /\ Len(resps[p]) >= 1
          /\ sentAuth[p][1] = NoToken
          /\ resps[p][1].status = StatusUnauthorized
          /\ Count(p, "refreshToken") = 1
          /\ (pc[p] = "done" \/ attempt[p] = 2)
    /\ \A i \in FetchesFor(h) : fetchLog[i].ok

C3_TokenForOwnScope ==
    \A p \in Procs :
        (InGetManifests(p) /\ Count(p, "refreshToken") = 1 /\ attempt[p] = 2)
            => /\ refreshed[p].serial > 0
               /\ refreshed[p].endpoint = MapGet(Params(p), realmKey)
               /\ refreshed[p].service = MapGet(Params(p), serviceKey)
               /\ refreshed[p].scope = MapGet(Params(p), scopeKey)

\* C4: a first answer of 401 without WWW-Authenticate ends the call with an
\* error, after that one manifest request and no token request
C4_NoChallengeIsTerminal ==
    \A p \in Procs :
        (/\ Len(resps[p]) >= 1
         /\ resps[p][1].status = StatusUnauthorized
         /\ resps[p][1].header = Empty)
            => /\ pc[p] = "done"
               /\ result[p].kind \notin {"none", "ok"}
               /\ reqLog[p] = <<"manifest">>

\* the first answer of call p has a status other than 200 and 401
OtherStatus(p) ==
    /\ Len(resps[p]) >= 1
    /\ resps[p][1].status \notin {0, StatusOK, StatusUnauthorized}

\* C5: when the first answer has a status other than 200 and 401, the call
\* has returned a registry error with that status and the answer's headers
\* after one manifest request and nothing else, and the step that received
\* the answer left the token cache and the token endpoint alone
C5_OtherStatusSurfaces ==
    /\ [](\A p \in Procs :
            OtherStatus(p)
                => /\ pc[p] = "done"
                   /\ result[p] = [kind |-> "registryError",
                                   status |-> resps[p][1].status,
                                   header |-> resps[p][1].header,
                                   manifest |-> "none"]
                   /\ reqLog[p] = <<"manifest">>)
    /\ [][\A p \in Procs :
            (~OtherStatus(p) /\ OtherStatus(p)')
                => tokens' = tokens /\ fetchLog' = fetchLog]_vars

\* a call answered 404 with headers has returned
C5_Witness ==
    \E p \in Procs :
        /\ OtherStatus(p)
        /\ resps[p][1].status = StatusNotFound
        /\ resps[p][1].header # Empty
        /\ pc[p] = "done"

\* call p was answered 401 with a challenge of scheme Bearer, then 200 with
\* a body that decodes
ChallengedThenServed(p) ==
    /\ pc[p] = "done"
    /\ Len(resps[p]) = 2
    /\ resps[p][1].status = StatusUnauthorized
    /\ Len(resps[p][1].header) > Len(Bearer)
    /\ SubSeq(resps[p][1].header, 1, Len(Bearer) + 1) = Bearer \o <<" ">>
    /\ resps[p][2].status = StatusOK
    /\ resps[p][2].body # "bad"

\* C6: a call answered 401 with a Bearer challenge, then given a token, then
\* answered 200 returns the manifest of the second answer; when it is the
\* only call made on the client it has sent manifest, token, manifest, and
\* in any case two manifest requests and at most one token request between
C6_ChallengeThenManifest ==
    \A p \in Procs :
        ChallengedThenServed(p)
            => /\ result[p].kind = "ok"
               /\ result[p].manifest = resps[p][2].body
               /\ Requests(p) \in {<<"manifest", "token", "manifest">>,
                                   <<"manifest", "manifest">>}
               /\ (calls = 1 => Requests(p) = <<"manifest", "token", "manifest">>)

\* the only call made so far went through manifest, token, manifest
C6_Witness ==
    \E p \in Procs :
        /\ calls = 1
        /\ ChallengedThenServed(p)
        /\ resps[p][2].body = "m2"
        /\ result[p].manifest = "m2"
        /\ Requests(p) = <<"manifest", "token", "manifest">>

\* the last request of goroutine p to the token endpoint
LastFetchOf(p) ==
    fetchLog[CHOOSE i \in DOMAIN fetchLog :
                /\ fetchLog[i].req.proc = p
                /\ \A j \in DOMAIN fetchLog : fetchLog[j].req.proc = p => j <= i]

\* the token endpoint did not give call p a token
TokenFetchFailed(p) == Count(p, "token") >= 1 /\ ~LastFetchOf(p).ok

\* C7: when the token endpoint fails to give a token, the call has returned
\* an error after exactly one manifest request and one token request
C7_TokenFailureIsFinal ==
    \A p \in Procs :
        TokenFetchFailed(p)
            => /\ pc[p] = "done"
               /\ result[p].kind = "tokenerr"
               /\ Requests(p) = <<"manifest", "token">>

\* a call whose token fetch failed
C7_Witness ==
    \E p \in Procs : TokenFetchFailed(p) /\ pc[p] = "done" /\ Len(resps[p]) = 1

\* C8: the token getCachedToken hands to the first request is the one stored
\* for the host at that moment, and the request carries exactly that token
\* (none if none is stored); a call that sent a token on its first request
\* sent one the token endpoint issued for that host, and when the registry
\* answers it 200 the call returns after that one manifest request
C8_PreemptiveAuthorization ==
    /\ [][\A p \in Procs :
            /\ (pc[p] \in {"getCachedToken", "tokenRLock"} /\ pc'[p] = "do")
                   => cached'[p] = StoredToken(CacheKey(p))
            /\ (pc[p] = "do" /\ Len(sentAuth'[p]) = Len(sentAuth[p]) + 1)
                   => sentAuth'[p][Len(sentAuth'[p])] = cached[p]]_vars
    /\ [](\A p \in Procs :
            (Len(sentAuth[p]) >= 1 /\ sentAuth[p][1] # NoToken)
                => /\ \E i \in FetchesFor(CacheKey(p)) :
                          /\ fetchLog[i].ok
                          /\ sentAuth[p][1] = IssuedToken(fetchLog[i].req, i)
                   /\ (resps[p][1].status = StatusOK /\ resps[p][1].body # "bad")
                          => /\ pc[p] = "done"
                             /\ result[p].kind = "ok"
                             /\ reqLog[p] = <<"manifest">>)

\* a later call sent the cached token at once and was served
C8_Witness ==
    \E p \in Procs :
        /\ pc[p] = "done"
        /\ sentAuth[p] # <<>>
        /\ sentAuth[p][1] # NoToken
        /\ resps[p][1].status = StatusOK
        /\ reqLog[p] = <<"manifest">>
        /\ result[p].kind = "ok"

\* the first answer of call p is a 401 whose WWW-Authenticate value has no
\* space, or has something other than Bearer before its first space
BadChallenge(p) ==
    /\ Len(resps[p]) >= 1
    /\ resps[p][1].status = StatusUnauthorized
    /\ resps[p][1].header # Empty
    /\ LET h == resps[p][1].header
           spaces == {i \in DOMAIN h : h[i] = " "}
       IN  \/ spaces = {}
           \/ \E i \in spaces : /\ \A j \in spaces : i <= j
                                /\ SubSeq(h, 1, i - 1) # Bearer

\* C9: such a challenge ends the call with the parse error after the one
\* manifest request, with no token request, and the step that received it
\* left the token cache alone
C9_BadChallengeAborts ==
    /\ [](\A p \in Procs :
            BadChallenge(p)
                => /\ pc[p] = "done"
                   /\ result[p].kind = "parseerr"
                   /\ reqLog[p] = <<"manifest">>)
    /\ [][\A p \in Procs :
            (~BadChallenge(p) /\ BadChallenge(p)')
                => tokens' = tokens /\ fetchLog' = fetchLog]_vars

\* a call that was given a challenge of another scheme has returned
C9_Witness ==
    \E p \in Procs :
        /\ BadChallenge(p)
        /\ resps[p][1].header = ChallengeBasic
        /\ result[p].kind = "parseerr"

\* image has no ':' after its last '/'
NoColonAfterLastSlash(s) ==
    \A i \in DOMAIN s : s[i] = ":" => \E j \in (i + 1)..Len(s) : s[j] = "/"

\* C10: an image without ':' after its last '/' gets the tag "latest"
C10_NoTagMeansLatest ==
    (refOut # NoRef /\ NoColonAfterLastSlash(refIn)) => refOut.tag = latest

\* what is left of the image once the returned tag is split off
RefRest ==
    IF ContainsRune(refIn, ":")
    THEN SubSeq(refIn, 1, Len(refIn) - Len(refOut.tag) - 1)
    ELSE refIn

\* the positions of '/' in a string
Slashes(s) == {i \in DOMAIN s : s[i] = "/"}

\* C11: the image is the rest, ':' and the tag (or the rest alone); without
\* '/' in the rest the host is Docker Hub and the repository "library/" and
\* the rest; with '/', the part before the first '/' is the host and what
\* follows it the repository if that part has a '.', and otherwise the host
\* is Docker Hub and the repository the whole rest
C11_HostAndRepository ==
    refOut # NoRef =>
        /\ ContainsRune(refIn, ":") => refIn = RefRest \o <<":">> \o refOut.tag
        /\ Slashes(RefRest) = {}
               => /\ refOut.host = dockerHubHost
                  /\ refOut.repo = libraryPrefix \o RefRest
        /\ \A i \in Slashes(RefRest) :
               (\A j \in Slashes(RefRest) : i <= j)
                   => IF \E d \in 1..(i - 1) : RefRest[d] = "."
                      THEN /\ refOut.host = SubSeq(RefRest, 1, i - 1)
                           /\ refOut.repo = SubSeq(RefRest, i + 1, Len(RefRest))
                      ELSE /\ refOut.host = dockerHubHost
                           /\ refOut.repo = RefRest

\* an image with a tag whose first segment has a '.' got that segment as host
C11_Witness ==
    /\ refOut # NoRef
    /\ refIn = <<"a", ".", "/", "a", ":">> \/ refIn = <<".", "a", "/", ":", "a">>
    /\ refOut.host # dockerHubHost
    /\ refOut.repo = <<"a">> \/ refOut.repo = Empty

\* goroutine p holds neither the lock of the map nor the lock of a host
HoldsNoLock(p) == mu # p /\ \A h \in DOMAIN tokens : tokens[h].mu # p

\* call p has come back from refreshToken with a token
RefreshReturned(p) ==
    InGetManifests(p) /\ Count(p, "refreshToken") = 1 /\ attempt[p] = 2

\* C12: refreshToken reads the clock while it holds no lock; once it holds
\* the lock of the host it returns the stored token without a fetch exactly
\* when that token was stored strictly after that reading, and fetches
\* otherwise; so the token it returns is never the one that was stored when
\* the call began
C12_NeverTheOldToken ==
    /\ [](\A p \in Procs : pc[p] = "muLock" => HoldsNoLock(p))
    /\ [][\A p \in Procs :
            (pc[p] = "tokenLock" /\ pc'[p] # "tokenLock")
                => IF tokens[CacheKey(p)].updatedAt > lastUpdatedAt[p]
                   THEN /\ pc'[p] = "getCachedToken"
                        /\ refreshed'[p] = tokens[CacheKey(p)].token
                        /\ fetchLog' = fetchLog
                   ELSE pc'[p] = "getToken"]_vars
    /\ [](\A p \in Procs : RefreshReturned(p) => refreshed[p] # startToken[p])

\* a call came back from refreshToken with a token it did not fetch
C12_Witness ==
    \E p \in Procs :
        /\ RefreshReturned(p)
        /\ Count(p, "token") = 0
        /\ refreshed[p] # NoToken
        /\ StoredToken(CacheKey(p)) = refreshed[p]

\* the goroutines whose request to the token endpoint for host h is in flight
Fetching(h) == {p \in Procs : pc[p] = "getToken" /\ CacheKey(p) = h}

\* C13: at most one request to the token endpoint is in flight per host, made
\* by the holder of the lock of the host; while it is in flight no other
\* refreshToken for the host gets past the lock, and the record of the host
\* is changed only by the step that ends the fetch
C13_RefreshesAreSerial ==
    /\ [](\A h \in DOMAIN tokens :
            /\ Cardinality(Fetching(h)) <= 1
            /\ \A p \in Fetching(h) : tokens[h].mu = p)
    /\ [][\A h \in DOMAIN tokens : \A p \in Fetching(h) :
            /\ tokens'[h] # tokens[h] => pc'[p] # "getToken"
            /\ \A q \in Procs \ {p} :
                   (pc[q] = "tokenLock" /\ CacheKey(q) = h) => pc'[q] = "tokenLock"]_vars

\* a fetch for a host is in flight while another refreshToken waits for it
C13_Witness ==
    \E h \in DOMAIN tokens : \E p \in Fetching(h) : \E q \in Procs \ {p} :
        pc[q] = "tokenLock" /\ CacheKey(q) = h

\* C14: getCachedToken never waits for the record of the host: once it has
\* found the record it can read the token at once, also while a token fetch
\* for the host is in flight
C14_CachedReadNeverBlocks ==
    \A p \in Procs : pc[p] = "tokenRLock" => ENABLED GetCachedTokenRead(p)

\* the goroutine that holds the lock goroutine q is about to take, 0 if the
\* lock is free or q is not about to take one
Blocker(q) ==
    IF pc[q] \in {"getCachedToken", "muLock"} THEN mu
    ELSE IF pc[q] \in {"tokenRLock", "tokenLock"} THEN tokens[CacheKey(q)].mu
    ELSE 0

\* q is inside a GetManifests call for another host than p
OnOtherHost(q, p) ==
    /\ InGetManifests(q)
    /\ pc[q] \notin {"idle", "done"}
    /\ CacheKey(q) # CacheKey(p)

\* q is at a lock it cannot take now
Waiting(q) ==
    \/ pc[q] = "getCachedToken" /\ ~ENABLED GetCachedTokenMap(q)
    \/ pc[q] = "tokenRLock" /\ ~ENABLED GetCachedTokenRead(q)
    \/ pc[q] = "muLock" /\ ~ENABLED RefreshMuLock(q)
    \/ pc[q] = "tokenLock" /\ ~ENABLED RefreshTokenLock(q)

\* C15: a goroutine whose token fetch is in flight does not hold the lock of
\* the map, and no call for another host waits for a lock it holds; such a
\* call can take its next step unless a third goroutine holds that lock
C15_OtherHostsNotBlocked ==
    \A p \in Procs :
        pc[p] = "getToken"
            => /\ mu # p
               /\ \A q \in Procs \ {p} :
                      OnOtherHost(q, p)
                          => /\ Blocker(q) # p
                             /\ Blocker(q) = 0 => ~Waiting(q)

\* token fetches for two hosts are in flight at once
C15_Witness ==
    \E p, q \in Procs :
        /\ pc[p] = "getToken"
        /\ pc[q] = "getToken"
        /\ CacheKey(q) # CacheKey(p)
        /\ Count(q, "refreshToken") = 1

\* a token fetch has just returned an error
FetchFailed == Len(fetchLog') = Len(fetchLog) + 1 /\ ~fetchLog'[Len(fetchLog')].ok

\* the token and the time stored for host h
Stored(h) == [token |-> tokens[h].token, updatedAt |-> tokens[h].updatedAt]

\* C16: a refresh whose token fetch fails leaves the token and the time stored
\* for every host as they were, and the token and the time stored for a host
\* change only together, in the one step in which the holder of the lock of
\* the host stores the token it has fetched and gives the lock back
C16_FailedRefreshKeepsToken ==
    [][\A h \in DOMAIN tokens :
          /\ FetchFailed => Stored(h)' = Stored(h)
          /\ Stored(h)' # Stored(h)
                => /\ tokens[h].mu # 0
                   /\ pc[tokens[h].mu] = "getToken"
                   /\ tokens'[h].mu = 0
                   /\ Len(fetchLog') = Len(fetchLog) + 1
                   /\ fetchLog'[Len(fetchLog')].ok
                   /\ fetchLog'[Len(fetchLog')].req.host = h
                   /\ tokens'[h].token = IssuedToken(fetchLog'[Len(fetchLog')].req,
                                                     Len(fetchLog'))
                   /\ tokens'[h].token # tokens[h].token
                   /\ tokens'[h].updatedAt = fetchLog'[Len(fetchLog')].at]_vars

\* a refresh has failed for a host that has a token stored, and the token is
\* the one of the successful fetch before it
C16_Witness ==
    /\ Len(fetchLog) = 2
    /\ fetchLog[1].ok
    /\ ~fetchLog[2].ok
    /\ fetchLog[2].req.host = fetchLog[1].req.host
    /\ StoredToken(fetchLog[1].req.host) = IssuedToken(fetchLog[1].req, 1)
    /\ tokens[fetchLog[1].req.host].updatedAt = fetchLog[1].at

\* C17: after a refresh that returned a token, the second manifest request of
\* the call carries the token this caller's refresh returned
C17_RetryCarriesRefreshedToken ==
    \A p \in Procs :
        (RefreshReturned(p) /\ refreshed[p] # NoToken /\ Len(sentAuth[p]) = 2)
            => sentAuth[p][2] = refreshed[p]

\* C18: the record of a host is never removed, a token stored for a host is
\* only ever replaced by another token, never by the empty token, and the
\* time stored with it never decreases
C18_StoredTokenStays ==
    [][\A h \in DOMAIN tokens :
          /\ h \in DOMAIN tokens'
          /\ tokens[h].token # NoToken => tokens'[h].token # NoToken
          /\ tokens'[h].updatedAt >= tokens[h].updatedAt]_vars

\* a token is stored for a host, a later refresh for the host has failed and
\* the token is still the one stored
C18_Witness ==
    \E h \in DOMAIN tokens, i \in DOMAIN fetchLog :
        /\ fetchLog[i].ok
        /\ fetchLog[i].req.host = h
        /\ tokens[h].token = IssuedToken(fetchLog[i].req, i)
        /\ Len(fetchLog) > i
        /\ ~fetchLog[Len(fetchLog)].ok
        /\ fetchLog[Len(fetchLog)].req.host = h
        /\ \E p \in Procs : result[p].kind = "tokenerr"

\* p is inside a call of Login or GetManifests
InCall(p) == pc[p] \notin {"idle", "done"}

\* C19: a goroutine holds the lock of the map only for the update of the map,
\* never while it waits for the lock of a host or for the network; a
\* goroutine outside a call holds no lock; as long as a call is going on some
\* goroutine can take a step; and every call returns
C19_CallsTerminate ==
    /\ [](\A p \in Procs :
            /\ mu = p => pc[p] \in {"loginUnlock", "muUnlock"}
            /\ ~InCall(p) => HoldsNoLock(p))
    /\ []((\E p \in Procs : InCall(p)) => (\E q \in Procs : InCall(q) /\ ~Waiting(q)))
    /\ \A p \in Procs : InCall(p) ~> ~InCall(p)

\* a call has returned after it waited for the lock of a host that another
\* goroutine held during a token fetch which failed
C19_Witness ==
    \E p, q \in Procs :
        /\ p # q
        /\ result[p].kind = "tokenerr"
        /\ pc[p] = "done"
        /\ pc[q] = "done"
        /\ CacheKey(q) = CacheKey(p)
        /\ Count(q, "refreshToken") = 1
        /\ Count(q, "token") = 1
        /\ Len(fetchLog) = 2
        /\ fetchLog[1].req.proc = p
====
